---- MODULE Spec2Model ----
(***************************************************************************)
(* A model of src/brainfuck.py: the sparse cell storage (BrainfuckStack),  *)
(* the interpreter (BrainfuckInterpreter: dispatch, the two bracket scans, *)
(* the I/O operators) and the C backend (to_c).                            *)
(*                                                                         *)
(* Positions are 0-based as in the source; TLA+ sequences are 1-based, so  *)
(* the command at position p is commands[p + 1].  A character of the       *)
(* instruction sequence is a one-character string; a unit of I/O is        *)
(* written as a string of code points, i.e. a sequence of integers.        *)
(***************************************************************************)
EXTENDS Integers, Sequences, FiniteSets, TLC

VARIABLES
    commands,            \* self._commands
    commands_position,   \* self._commands_position
    stack,               \* self._stack._dict: a function on the materialized indices
    stack_position,      \* self._stack_position
    stream_input,        \* self._stream_input: [set |-> FALSE] is None
    stream_output,       \* what the sink self._stream_output has received
    raised,              \* the last call ended by raising an exception
    call,                \* history: the last call made on the interpreter
    back_jumps           \* history: backward jumps of _loop_end since the sequence was set

vars == <<commands, commands_position, stack, stack_position,
          stream_input, stream_output, raised, call, back_jumps>>

(***************************************************************************)
(* Bounds of the model.                                                    *)
(***************************************************************************)
MaxLen == 3      \* longest instruction sequence of Spec
MaxPtr == 2      \* the tape pointer stays within -MaxPtr .. MaxPtr
MaxCell == 2     \* cell values stay within -MaxCell .. MaxChr + MaxCell
MaxOut == 2      \* units the output sink receives
MaxIn == 1       \* units an input stream holds
MaxJumps == 7    \* backward jumps of one run
MaxResetLen == 2 \* longest instruction sequence of SpecReset
Fuel == 40       \* steps given to a run computed as a function
MaxLoopLen == 7  \* longest instruction sequence of SpecLoop

(***************************************************************************)
(* chr() of Python 2 accepts range(256) only.                              *)
(***************************************************************************)
MaxChr == 255

OperatorChars == {">", "<", "+", "-", ".", ",", "[", "]"}

CommentChar == "x"

Chars == OperatorChars \cup {CommentChar}

RECURSIVE SeqsUpTo(_, _)
SeqsUpTo(S, n) ==
    IF n = 0 THEN {<<>>}
    ELSE LET shorter == SeqsUpTo(S, n - 1)
         IN  shorter \cup {Append(s, c) : s \in {t \in shorter : Len(t) = n - 1}, c \in S}

Programs == SeqsUpTo(Chars, MaxLen)

\* SpecReset draws its sequences from the operators that touch each piece of
\* state set_command resets or must leave alone.
ResetChars == {">", ".", ","}

ResetPrograms == SeqsUpTo(ResetChars, MaxResetLen)

\* Sequences of brackets and cell arithmetic: nested and unbalanced loops.
LoopChars == {"+", "-", "[", "]"}

LoopPrograms == SeqsUpTo(LoopChars, MaxLoopLen)

InputUnits == {1, MaxChr}

Streams == SeqsUpTo(InputUnits, MaxIn)

\* What Getch.getch() can return: one character, or '' from sys.stdin.read(1) at EOF.
Keys == {<<>>} \cup {<<u>> : u \in InputUnits}

NoStream == [set |-> FALSE, buf |-> <<>>]

self ==
    [commands |-> commands, commands_position |-> commands_position,
     stack |-> stack, stack_position |-> stack_position,
     stream_input |-> stream_input, stream_output |-> stream_output,
     raised |-> raised]

(***************************************************************************)
(* BrainfuckStack                                                          *)
(***************************************************************************)
EmptyDict == [i \in {} |-> 0]

\* __getitem__ inserts a missing index with 0 and returns the stored value.
__getitem__(d, index) ==
    IF index \in DOMAIN d
    THEN [dict |-> d, value |-> d[index]]
    ELSE [dict |-> d @@ (index :> 0), value |-> 0]

__setitem__(d, index, value) ==
    IF index \in DOMAIN d THEN [d EXCEPT ![index] = value] ELSE d @@ (index :> value)

(***************************************************************************)
(* BrainfuckInterpreter                                                    *)
(***************************************************************************)
__init__(cmds) ==
    [commands |-> cmds, commands_position |-> 0,
     stack |-> EmptyDict, stack_position |-> 0,
     stream_input |-> NoStream, stream_output |-> <<>>,
     raised |-> FALSE]

\* Mutant of _increment_pointer: the cell moved to is read, which creates it.
_increment_pointer_reads(st) ==
    LET moved == [st EXCEPT !.stack_position = @ + 1]
    IN  [moved EXCEPT !.stack = __getitem__(moved.stack, moved.stack_position).dict]

_increment_pointer(st) == [st EXCEPT !.stack_position = @ + 1]

_decrement_pointer(st) == [st EXCEPT !.stack_position = @ - 1]

_increment(st) ==
    LET g == __getitem__(st.stack, st.stack_position)
    IN  [st EXCEPT !.stack = __setitem__(g.dict, st.stack_position, g.value + 1)]

\* Mutant of _decrement: a cell is not taken below 0.
_decrement_floor(st) ==
    LET g == __getitem__(st.stack, st.stack_position)
    IN  [st EXCEPT !.stack = __setitem__(g.dict, st.stack_position,
                                         IF g.value > 0 THEN g.value - 1 ELSE 0)]

_decrement(st) ==
    LET g == __getitem__(st.stack, st.stack_position)
    IN  [st EXCEPT !.stack = __setitem__(g.dict, st.stack_position, g.value - 1)]

\* chr(i): the one-character string of code point i; ValueError outside range(256).
chr(i) == IF i \in 0..MaxChr THEN [ok |-> TRUE, str |-> <<i>>] ELSE [ok |-> FALSE, str |-> <<>>]

ord(str) == str[1]

_output(st) ==
    LET g == __getitem__(st.stack, st.stack_position)
        c == chr(g.value)
    IN  IF c.ok
        THEN [st EXCEPT !.stack = g.dict, !.stream_output = @ \o c.str]
        ELSE [st EXCEPT !.stack = g.dict, !.raised = TRUE]

\* stream.read(1): at most one unit, taken from the front of the stream.
read1(buf) == IF buf = <<>> THEN <<>> ELSE <<Head(buf)>>

\* Mutant of _input: an empty read leaves the cell as it was.
_input_keeps_cell(st, key) ==
    LET byte == IF ~st.stream_input.set THEN key ELSE read1(st.stream_input.buf)
        g == __getitem__(st.stack, st.stack_position)
        value == IF Len(byte) = 1 THEN ord(byte) ELSE g.value
        rest == IF st.stream_input.set /\ st.stream_input.buf # <<>>
                THEN [st.stream_input EXCEPT !.buf = Tail(@)]
                ELSE st.stream_input
    IN  [st EXCEPT !.stream_input = rest,
                   !.stack = __setitem__(g.dict, st.stack_position, value)]

_input(st, key) ==
    LET byte == IF ~st.stream_input.set THEN key ELSE read1(st.stream_input.buf)
        value == IF Len(byte) = 1 THEN ord(byte) ELSE 0
        rest == IF st.stream_input.set /\ st.stream_input.buf # <<>>
                THEN [st.stream_input EXCEPT !.buf = Tail(@)]
                ELSE st.stream_input
    IN  [st EXCEPT !.stream_input = rest,
                   !.stack = __setitem__(@, st.stack_position, value)]

\* Mutant of _loop_begin_for: nesting is not counted, the first `]` is taken.
RECURSIVE _loop_begin_for_first_close(_, _, _, _)
_loop_begin_for_first_close(cmds, i, found, position) ==
    IF i >= Len(cmds) THEN position
    ELSE LET command == cmds[i + 1]
         IN  IF command = "]" THEN i + 1
             ELSE _loop_begin_for_first_close(cmds, i + 1, found, position)

\* Mutant of _loop_begin_for: a scan that finds no match walks off the end.
RECURSIVE _loop_begin_for_runs_off(_, _, _, _)
_loop_begin_for_runs_off(cmds, i, found, position) ==
    IF i >= Len(cmds) THEN Len(cmds)
    ELSE LET command == cmds[i + 1]
         IN  IF command = "]" /\ found = 0 THEN i + 1
             ELSE IF command = "]"
                  THEN _loop_begin_for_runs_off(cmds, i + 1, found + 1, position)
             ELSE IF command = "["
                  THEN _loop_begin_for_runs_off(cmds, i + 1, found - 1, position)
             ELSE _loop_begin_for_runs_off(cmds, i + 1, found, position)

\* The for loop of _loop_begin from index i on; the result is the new
\* _commands_position (position: the loop ran out without a match).
RECURSIVE _loop_begin_for(_, _, _, _)
_loop_begin_for(cmds, i, found, position) ==
    IF i >= Len(cmds) THEN position
    ELSE LET command == cmds[i + 1]
         IN  IF command = "]" /\ found = 0 THEN i + 1
             ELSE IF command = "]" THEN _loop_begin_for(cmds, i + 1, found + 1, position)
             ELSE IF command = "[" THEN _loop_begin_for(cmds, i + 1, found - 1, position)
             ELSE _loop_begin_for(cmds, i + 1, found, position)

\* Mutant of _loop_begin: the test is inverted, a zero cell enters the loop.
_loop_begin_inverted(st) ==
    LET g == __getitem__(st.stack, st.stack_position)
    IN  IF g.value = 0
        THEN [st EXCEPT !.stack = g.dict]
        ELSE [st EXCEPT !.stack = g.dict,
                        !.commands_position =
                            _loop_begin_for(st.commands, st.commands_position + 1, 0,
                                            st.commands_position)]

_loop_begin(st) ==
    LET g == __getitem__(st.stack, st.stack_position)
    IN  IF g.value # 0
        THEN [st EXCEPT !.stack = g.dict]
        ELSE [st EXCEPT !.stack = g.dict,
                        !.commands_position =
                            _loop_begin_for(st.commands, st.commands_position + 1, 0,
                                            st.commands_position)]

\* Mutant of _loop_end_for: nesting is not counted, the nearest `[` is taken.
RECURSIVE _loop_end_for_first_open(_, _, _, _)
_loop_end_for_first_open(cmds, i, found, position) ==
    IF i <= 0 THEN position
    ELSE LET command == cmds[i + 1]
         IN  IF command = "[" THEN i
             ELSE _loop_end_for_first_open(cmds, i - 1, found, position)

\* Mutant of _loop_end_for: the jump goes one past the matched `[`, as that of
\* _loop_begin goes one past the matched `]`.
RECURSIVE _loop_end_for_past_begin(_, _, _, _)
_loop_end_for_past_begin(cmds, i, found, position) ==
    IF i <= 0 THEN position
    ELSE LET command == cmds[i + 1]
         IN  IF command = "[" /\ found = 0 THEN i + 1
             ELSE IF command = "["
                  THEN _loop_end_for_past_begin(cmds, i - 1, found + 1, position)
             ELSE IF command = "]"
                  THEN _loop_end_for_past_begin(cmds, i - 1, found - 1, position)
             ELSE _loop_end_for_past_begin(cmds, i - 1, found, position)

\* The for loop of _loop_end: range(position - 1, 0, -1) stops before index 0.
RECURSIVE _loop_end_for(_, _, _, _)
_loop_end_for(cmds, i, found, position) ==
    IF i <= 0 THEN position
    ELSE LET command == cmds[i + 1]
         IN  IF command = "[" /\ found = 0 THEN i
             ELSE IF command = "[" THEN _loop_end_for(cmds, i - 1, found + 1, position)
             ELSE IF command = "]" THEN _loop_end_for(cmds, i - 1, found - 1, position)
             ELSE _loop_end_for(cmds, i - 1, found, position)

_loop_end(st) ==
    LET g == __getitem__(st.stack, st.stack_position)
    IN  IF g.value = 0
        THEN [st EXCEPT !.stack = g.dict]
        ELSE [st EXCEPT !.stack = g.dict,
                        !.commands_position =
                            _loop_end_for(st.commands, st.commands_position - 1, 0,
                                          st.commands_position)]

is_end(st) == st.commands_position >= Len(st.commands)

\* self._operators[command]()
_operators(command, st, key) ==
    CASE command = ">" -> _increment_pointer(st)
      [] command = "<" -> _decrement_pointer(st)
      [] command = "+" -> _increment(st)
      [] command = "-" -> _decrement(st)
      [] command = "." -> _output(st)
      [] command = "," -> _input(st, key)
      [] command = "[" -> _loop_begin(st)
      [] command = "]" -> _loop_end(st)

\* Mutant of single_step: a step at the end still advances the cursor.
single_step_counts_on(st, key) ==
    LET s0 == [st EXCEPT !.raised = FALSE]
    IN  IF is_end(s0) THEN [s0 EXCEPT !.commands_position = @ + 1]
        ELSE LET command == s0.commands[s0.commands_position + 1]
             IN  IF command \notin OperatorChars
                 THEN [s0 EXCEPT !.commands_position = @ + 1]
                 ELSE LET s1 == _operators(command, s0, key)
                      IN  IF s1.raised THEN s1
                          ELSE [s1 EXCEPT !.commands_position = @ + 1]

\* Mutant of single_step: a character that is no operator is returned from
\* before the cursor is advanced.
single_step_stays_on_comment(st, key) ==
    LET s0 == [st EXCEPT !.raised = FALSE]
    IN  IF is_end(s0) THEN s0
        ELSE LET command == s0.commands[s0.commands_position + 1]
             IN  IF command \notin OperatorChars
                 THEN s0
                 ELSE LET s1 == _operators(command, s0, key)
                      IN  IF s1.raised THEN s1
                          ELSE [s1 EXCEPT !.commands_position = @ + 1]

\* One call of single_step; key is what the terminal yields if it is asked.
\* An exception raised by the operator leaves the cursor where it was.
single_step(st, key) ==
    LET s0 == [st EXCEPT !.raised = FALSE]
    IN  IF is_end(s0) THEN s0
        ELSE LET command == s0.commands[s0.commands_position + 1]
             IN  IF command \notin OperatorChars
                 THEN [s0 EXCEPT !.commands_position = @ + 1]
                 ELSE LET s1 == _operators(command, s0, key)
                      IN  IF s1.raised THEN s1
                          ELSE [s1 EXCEPT !.commands_position = @ + 1]

\* Mutant of set_command: the tape pointer is not reset.
set_command_keeps_pointer(st, cmds) ==
    [st EXCEPT !.commands = cmds, !.commands_position = 0,
               !.stack = EmptyDict, !.raised = FALSE]

set_command(st, cmds) ==
    [st EXCEPT !.commands = cmds, !.commands_position = 0,
               !.stack = EmptyDict, !.stack_position = 0, !.raised = FALSE]

\* execute() as a function: single_step until is_end, at most fuel steps; an
\* exception ends the run.  key is what the terminal yields whenever asked.
RECURSIVE execute(_, _, _)
execute(st, key, fuel) ==
    IF is_end(st) \/ fuel = 0 THEN st
    ELSE LET next == single_step(st, key)
         IN  IF next.raised THEN next ELSE execute(next, key, fuel - 1)

set_input_stream(st, stream) ==
    [st EXCEPT !.stream_input = [set |-> TRUE, buf |-> stream], !.raised = FALSE]

(***************************************************************************)
(* The C backend: to_c, its text as the sequence of its lines, and what    *)
(* the emitted statements do when the C program runs.                      *)
(***************************************************************************)
CellsSize == 3000

\* Values every `char` holds, whether char is signed or unsigned.
CharMax == 127

c_commands(command) ==
    CASE command = "+" -> "++cells[pos];"
      [] command = "-" -> "--cells[pos];"
      [] command = ">" -> "pos++;"
      [] command = "<" -> "pos--;"
      [] command = "." -> "putchar(cells[pos]);"
      [] command = "," -> "cells[pos] = getchar();"
      [] command = "[" -> "while(cells[pos] != 0) {"
      [] command = "]" -> "}"

CPrologue == <<"#include <stdio.h>", "int main() {", "int pos = 0;", "char cells[3000];">>

CEpilogue == "return 0; }"

\* Mutant of to_c: only the commands from the cursor on are lowered.
to_c_from_cursor(st) ==
    LET rest == SubSeq(st.commands, st.commands_position + 1, Len(st.commands))
        kept == SelectSeq(rest, LAMBDA command : command \in OperatorChars)
    IN  CPrologue \o [i \in 1..Len(kept) |-> c_commands(kept[i])] \o <<CEpilogue>>

to_c(st) ==
    LET kept == SelectSeq(st.commands, LAMBDA command : command \in OperatorChars)
    IN  CPrologue \o [i \in 1..Len(kept) |-> c_commands(kept[i])] \o <<CEpilogue>>

\* `char cells[3000];` is not initialized: each run starts from some fill.
CInit == {0, 1}

CCell(cells, i, init) == IF i \in DOMAIN cells THEN cells[i] ELSE init

CStore(cells, i, value) ==
    IF i \in DOMAIN cells THEN [cells EXCEPT ![i] = value] ELSE cells @@ (i :> value)

\* The line of the `}` closing the while statement whose body starts at line j.
RECURSIVE CLoopClose(_, _, _)
CLoopClose(lines, j, depth) ==
    IF j > Len(lines) THEN j
    ELSE IF lines[j] = "}" /\ depth = 0 THEN j
    ELSE IF lines[j] = "}" THEN CLoopClose(lines, j + 1, depth - 1)
    ELSE IF lines[j] = "while(cells[pos] != 0) {" THEN CLoopClose(lines, j + 1, depth + 1)
    ELSE CLoopClose(lines, j + 1, depth)

\* The line of the while statement that the `}` after line j closes.
RECURSIVE CLoopOpen(_, _, _)
CLoopOpen(lines, j, depth) ==
    IF j < 1 THEN j
    ELSE IF lines[j] = "while(cells[pos] != 0) {" /\ depth = 0 THEN j
    ELSE IF lines[j] = "while(cells[pos] != 0) {" THEN CLoopOpen(lines, j - 1, depth - 1)
    ELSE IF lines[j] = "}" THEN CLoopOpen(lines, j - 1, depth + 1)
    ELSE CLoopOpen(lines, j - 1, depth)

\* The C program at the first statement after the declarations, with the units
\* its standard input holds.
CStart(input) ==
    [pc |-> Len(CPrologue) + 1, pos |-> 0, cells |-> EmptyDict, out |-> <<>>,
     stdin |-> input]

CDone(lines, c) == c.pc \notin 1..Len(lines) \/ lines[c.pc] = CEpilogue

\* One statement of the C program; init is the fill of the uninitialized buffer.
\* getchar() yields EOF, -1, once the input is used up.
CStatement(lines, c, init) ==
    LET line == lines[c.pc]
        cell == CCell(c.cells, c.pos, init)
    IN  CASE line = "++cells[pos];" ->
                 [c EXCEPT !.pc = @ + 1, !.cells = CStore(@, c.pos, cell + 1)]
          [] line = "--cells[pos];" ->
                 [c EXCEPT !.pc = @ + 1, !.cells = CStore(@, c.pos, cell - 1)]
          [] line = "pos++;" -> [c EXCEPT !.pc = @ + 1, !.pos = @ + 1]
          [] line = "pos--;" -> [c EXCEPT !.pc = @ + 1, !.pos = @ - 1]
          [] line = "putchar(cells[pos]);" ->
                 [c EXCEPT !.pc = @ + 1, !.out = Append(@, cell)]
          [] line = "cells[pos] = getchar();" ->
                 IF c.stdin = <<>>
                 THEN [c EXCEPT !.pc = @ + 1, !.cells = CStore(@, c.pos, -1)]
                 ELSE [c EXCEPT !.pc = @ + 1, !.cells = CStore(@, c.pos, Head(c.stdin)),
                                !.stdin = Tail(@)]
          [] line = "while(cells[pos] != 0) {" ->
                 IF cell # 0 THEN [c EXCEPT !.pc = @ + 1]
                 ELSE [c EXCEPT !.pc = CLoopClose(lines, c.pc + 1, 0) + 1]
          [] line = "}" -> [c EXCEPT !.pc = CLoopOpen(lines, c.pc - 1, 0)]
          [] OTHER -> [c EXCEPT !.pc = @ + 1]

RECURSIVE CRun(_, _, _, _)
CRun(lines, c, init, fuel) ==
    IF CDone(lines, c) \/ fuel = 0 THEN c
    ELSE CRun(lines, CStatement(lines, c, init), init, fuel - 1)

(***************************************************************************)
(* The state machine.                                                      *)
(***************************************************************************)
\* The caps that keep the reachable states finite.
Bounded(st) ==
    /\ st.stack_position \in -MaxPtr..MaxPtr
    /\ \A i \in DOMAIN st.stack : st.stack[i] \in -MaxCell..(MaxChr + MaxCell)
    /\ Len(st.stream_output) <= MaxOut

Become(st) ==
    /\ commands' = st.commands
    /\ commands_position' = st.commands_position
    /\ stack' = st.stack
    /\ stack_position' = st.stack_position
    /\ stream_input' = st.stream_input
    /\ stream_output' = st.stream_output
    /\ raised' = st.raised

Start(st) ==
    /\ commands = st.commands
    /\ commands_position = st.commands_position
    /\ stack = st.stack
    /\ stack_position = st.stack_position
    /\ stream_input = st.stream_input
    /\ stream_output = st.stream_output
    /\ raised = st.raised

CurrentCommand ==
    IF is_end(self) THEN "" ELSE commands[commands_position + 1]

\* The terminal is asked for a key only by `,` with no input stream set.
KeysAsked ==
    IF CurrentCommand = "," /\ ~stream_input.set THEN Keys ELSE {<<>>}

\* A step of `]` that ends at or before its own index has jumped back.
JumpsAfter(st) ==
    IF CurrentCommand = "]" /\ st.commands_position <= commands_position
    THEN back_jumps + 1
    ELSE back_jumps

\* A step records the index and the command it executed and the key it was given;
\* a setter records its argument.
Called(name, arg) ==
    IF name = "single_step"
    THEN [name |-> name, at |-> commands_position, cmd |-> CurrentCommand, arg |-> arg]
    ELSE [name |-> name, at |-> 0, cmd |-> "", arg |-> arg]

Construct(programs) ==
    /\ \E cmds \in programs : Start(__init__(cmds))
    /\ call = [name |-> "__init__", at |-> 0, cmd |-> "", arg |-> <<>>]
    /\ back_jumps = 0

Init == Construct(Programs)

Stepped(key) ==
    /\ Bounded(single_step(self, key))
    /\ JumpsAfter(single_step(self, key)) <= MaxJumps
    /\ Become(single_step(self, key))
    /\ back_jumps' = JumpsAfter(single_step(self, key))
    /\ call' = Called("single_step", key)

\* A caller's single_step().
SingleStep == \E key \in KeysAsked : Stepped(key)

\* One iteration of the while loop of execute(): a call of single_step().
Execute ==
    /\ ~is_end(self)
    /\ \E key \in KeysAsked : Stepped(key)

SetInputStream ==
    \E stream \in Streams :
        /\ Become(set_input_stream(self, stream))
        /\ call' = Called("set_input_stream", stream)
        /\ UNCHANGED back_jumps

SetCommand ==
    \E cmds \in ResetPrograms :
        /\ Become(set_command(self, cmds))
        /\ call' = Called("set_command", cmds)
        /\ back_jumps' = 0

Next == SingleStep \/ Execute \/ SetInputStream

Spec == Init /\ [][Next]_vars

\* A caller's to_c(): the text is returned, the interpreter is not touched.
ToC ==
    /\ Become(self)
    /\ back_jumps' = back_jumps
    /\ call' = Called("to_c", to_c(self))

\* The interpreter stepped by its caller, who may ask for the C text at any time.
NextLower == SingleStep \/ Execute \/ ToC

SpecLower == Init /\ [][NextLower]_vars

\* The whole interface on short sequences: set_command in any reachable state.
InitReset == Construct(ResetPrograms)

NextReset == SingleStep \/ Execute \/ SetInputStream \/ SetCommand

SpecReset == InitReset /\ [][NextReset]_vars

\* Runs of the sequences of brackets and cell arithmetic.
InitLoop == Construct(LoopPrograms)

NextLoop == SingleStep \/ Execute

SpecLoop == InitLoop /\ [][NextLoop]_vars

\* execute() on the clear loops: n times `+`, then `[-]`.  The while loop of
\* execute() keeps calling single_step() until is_end(), hence the fairness.
ClearProgram(n) == [i \in 1..n |-> "+"] \o <<"[", "-", "]">>

ClearPrograms == {ClearProgram(n) : n \in 1..(MaxJumps + 1)}

InitClear == Construct(ClearPrograms)

NextClear == Execute

SpecClear == InitClear /\ [][NextClear]_vars /\ WF_vars(Execute)

(***************************************************************************)
(* Vocabulary of the properties.                                           *)
(***************************************************************************)
\* The value of cell i: 0 for an index never materialized.
CellValue(d, i) == IF i \in DOMAIN d THEN d[i] ELSE 0

\* The last call was a step that executed command c.
Executed(c) == call.name = "single_step" /\ call.cmd = c

\* Occurrences of character ch at the indices lo..hi (0-based) of cmds.
Count(cmds, ch, lo, hi) == Cardinality({j \in lo..hi : cmds[j + 1] = ch})

\* m holds the `]` balancing the `[` at index c: the brackets strictly between
\* them are balanced.
IsForwardMatch(cmds, c, m) ==
    /\ m \in (c + 1)..(Len(cmds) - 1)
    /\ cmds[m + 1] = "]"
    /\ Count(cmds, "[", c + 1, m - 1) = Count(cmds, "]", c + 1, m - 1)
    /\ \A j \in (c + 1)..(m - 1) :
           Count(cmds, "]", c + 1, j) <= Count(cmds, "[", c + 1, j)

HasForwardMatch(cmds, c) == \E m \in (c + 1)..(Len(cmds) - 1) : IsForwardMatch(cmds, c, m)

\* b holds the `[` balancing the `]` at index c, no index below lo being a
\* candidate: the brackets strictly between them are balanced.
IsBackwardMatch(cmds, c, b, lo) ==
    /\ b \in lo..(c - 1)
    /\ cmds[b + 1] = "["
    /\ Count(cmds, "[", b + 1, c - 1) = Count(cmds, "]", b + 1, c - 1)
    /\ \A j \in (b + 1)..(c - 1) :
           Count(cmds, "[", j, c - 1) <= Count(cmds, "]", j, c - 1)

HasBackwardMatch(cmds, c, lo) == \E b \in lo..(c - 1) : IsBackwardMatch(cmds, c, b, lo)

\* The last call was a step of `[` on a zero cell with no balancing `]` after it.
UnmatchedBeginStepped ==
    /\ Executed("[")
    /\ CellValue(stack, stack_position) = 0
    /\ ~HasForwardMatch(commands, call.at)

(***************************************************************************)
(* C1: in every reachable state 0 <= cursor <= len(sequence).              *)
(* Refuted by the code: a `[` on a zero cell sets the cursor one past its  *)
(* `]` and single_step adds one more.                                      *)
(***************************************************************************)
C1_CursorWithinSequence == commands_position \in 0..Len(commands)

(***************************************************************************)
(* C3: no step raises, whatever the sequence and the input, `.` on a cell  *)
(* below 0 or above 255 included.  Refuted by the code: chr() raises.      *)
(***************************************************************************)
C3_NoStepRaises == ~raised

(***************************************************************************)
(* C5 as claimed: after a step of `[` on a zero cell whose forward scan    *)
(* finds no `]`, is_end() holds (so nothing after the `[` is executed).    *)
(***************************************************************************)
C5_UnmatchedBeginEndsRun == UnmatchedBeginStepped => is_end(self)

(***************************************************************************)
(* C5 as amended: such a step leaves the cursor to the outer increment,    *)
(* cursor = c + 1, so the instructions after the `[` are executed next and *)
(* is_end() holds only if the `[` was the last instruction; run() on the   *)
(* sequence `[` can step and ends with cursor = 1 = len(sequence).         *)
(***************************************************************************)
C5_UnmatchedBeginFallsThrough ==
    /\ UnmatchedBeginStepped =>
           /\ ~raised
           /\ commands_position = call.at + 1
           /\ is_end(self) <=> (call.at = Len(commands) - 1)
    /\ (commands = <<"[">> /\ commands_position = 0) => ENABLED Execute
    /\ (commands = <<"[">> /\ call.name = "single_step") =>
           commands_position = Len(commands)

\* C5 witness: an unmatched `[` was stepped over and instructions remain.
C5_Witness == UnmatchedBeginStepped /\ ~is_end(self) /\ call.at > 0

\* Every cell other than those in `except` has the same value in d and e.
SameCellsExcept(d, e, except) ==
    \A i \in (DOMAIN d \cup DOMAIN e) \ except : CellValue(d, i) = CellValue(e, i)

(***************************************************************************)
(* C7: set_command(seq) in any reachable state leaves sequence = seq,      *)
(* cursor = 0, tape pointer = 0 and an empty tape, leaves the input source *)
(* and the output sink as they were, and the result is the freshly         *)
(* constructed interpreter on seq apart from the I/O endpoints.            *)
(***************************************************************************)
C7_SetCommandResets ==
    [][call'.name = "set_command" =>
          LET fresh == __init__(call'.arg)
          IN  /\ commands' = call'.arg
              /\ commands_position' = 0
              /\ stack_position' = 0
              /\ stack' = EmptyDict
              /\ stream_input' = stream_input
              /\ stream_output' = stream_output
              /\ commands' = fresh.commands
              /\ commands_position' = fresh.commands_position
              /\ stack_position' = fresh.stack_position
              /\ stack' = fresh.stack
              /\ raised' = fresh.raised]_vars

\* C7 witness: a reset to a nonempty sequence after output was written and with
\* an input stream configured.
C7_Witness ==
    /\ call.name = "set_command"
    /\ call.arg # <<>>
    /\ stream_output # <<>>
    /\ stream_input.set
    /\ commands_position = 0

(***************************************************************************)
(* C8: `,` sets the current cell to the code point of the unit read, or to *)
(* 0 when the source yields nothing, whatever the cell held; the pointer   *)
(* and every other cell are unchanged and one unit is consumed if any.     *)
(***************************************************************************)
C8_InputStoresUnit ==
    [][(call'.name = "single_step" /\ call'.cmd = ",") =>
          LET byte == IF stream_input.set
                      THEN IF stream_input.buf = <<>> THEN <<>>
                           ELSE <<stream_input.buf[1]>>
                      ELSE call'.arg
          IN  /\ ~raised'
              /\ stack_position \in DOMAIN stack'
              /\ stack'[stack_position] = IF Len(byte) = 1 THEN byte[1] ELSE 0
              /\ stack_position' = stack_position
              /\ SameCellsExcept(stack, stack', {stack_position})
              /\ stream_input' =
                     IF stream_input.set /\ stream_input.buf # <<>>
                     THEN [set |-> TRUE, buf |-> Tail(stream_input.buf)]
                     ELSE stream_input
              /\ stream_output' = stream_output
              /\ commands_position' = commands_position + 1]_vars

\* C8 witness: `+,` on an exhausted stream: the cell held 1 and now holds 0.
C8_Witness ==
    /\ Executed(",")
    /\ call.at = 1
    /\ commands[1] = "+"
    /\ stream_input.set
    /\ stack[stack_position] = 0

(***************************************************************************)
(* C9: `.` appends to the output exactly one unit whose code point is the  *)
(* value of the current cell and changes no cell and not the pointer.      *)
(* Refuted by the code on a cell outside 0..255 (see C3): chr() raises and *)
(* nothing is written.                                                     *)
(***************************************************************************)
C9_OutputWritesCell ==
    [][(call'.name = "single_step" /\ call'.cmd = ".") =>
          /\ stream_output' = Append(stream_output, CellValue(stack, stack_position))
          /\ SameCellsExcept(stack, stack', {})
          /\ stack_position' = stack_position]_vars

(***************************************************************************)
(* C10: from any reachable state, the two steps `+` `-` or `-` `+` leave   *)
(* every cell value as it was, and the two steps `>` `<` or `<` `>` return *)
(* the tape pointer to where it was with every cell value as it was.       *)
(***************************************************************************)
InversePairs == {<<"+", "-">>, <<"-", "+">>, <<">", "<">>, <<"<", ">">>}

NextTwoAre(pair) ==
    /\ commands_position + 1 < Len(commands)
    /\ commands[commands_position + 1] = pair[1]
    /\ commands[commands_position + 2] = pair[2]

C10_InversePairsAreIdentity ==
    \A pair \in InversePairs :
        NextTwoAre(pair) =>
            LET after == single_step(single_step(self, <<>>), <<>>)
            IN  /\ ~after.raised
                /\ after.commands_position = commands_position + 2
                /\ after.stack_position = stack_position
                /\ SameCellsExcept(stack, after.stack, {})
                /\ after.stream_output = stream_output

\* C10 witness: `-` was stepped right after `+` on a cell that held a nonzero value.
C10_Witness ==
    /\ Executed("-")
    /\ call.at >= 1
    /\ commands[call.at] = "+"
    /\ commands_position = call.at + 1
    /\ CellValue(stack, stack_position) # 0

(***************************************************************************)
(* C6: execute() on n `+` followed by `[-]` (n >= 1) from a fresh engine   *)
(* terminates with is_end() true, cell 0 equal to 0, tape pointer 0 and    *)
(* nothing written; the loop end has then jumped back exactly n - 1 times. *)
(* Here n = Len(commands) - 3.                                             *)
(***************************************************************************)
C6_ClearLoopTerminates ==
    <>[](/\ is_end(self)
         /\ ~raised
         /\ 0 \in DOMAIN stack
         /\ stack[0] = 0
         /\ stack_position = 0
         /\ stream_output = <<>>
         /\ back_jumps = (Len(commands) - 3) - 1)

\* C6 witness: a clear loop with n >= 3 has run to its end.
C6_Witness ==
    /\ is_end(self)
    /\ Len(commands) >= 6
    /\ back_jumps >= 2
    /\ stack[0] = 0

InsertAt(cmds, k, ch) == SubSeq(cmds, 1, k) \o <<ch>> \o SubSeq(cmds, k + 1, Len(cmds))

\* What a finished run leaves to observe.
Observed(st) ==
    [output |-> st.stream_output,
     pointer |-> st.stack_position,
     cells |-> {<<i, st.stack[i]>> : i \in {j \in DOMAIN st.stack : st.stack[j] # 0}}]

\* The sequence reads no input: its run is the same for every input.
ReadsNoInput(cmds) == \A j \in 1..Len(cmds) : cmds[j] # ","

\* The steps taken since construction have run the sequence to its end.
RunEnded == call.name = "single_step" /\ is_end(self) /\ ~raised

(***************************************************************************)
(* C2: inserting a comment character anywhere in the sequence (deleting    *)
(* one is the same pair of sequences read the other way) changes neither   *)
(* whether execute() ends nor the output, the final tape pointer or the    *)
(* final cell values.  Stated of the runs that end, on the sequences that  *)
(* read no input (every input then gives the same run): the commented      *)
(* sequence, run from a fresh engine, ends with what this run ended with.  *)
(* Refuted by the code: the instruction after a skipped loop is jumped     *)
(* over (see C1, C4), so a comment placed there makes the next operator    *)
(* run.                                                                    *)
(***************************************************************************)
C2_CommentsAreNeutral ==
    (RunEnded /\ ReadsNoInput(commands)) =>
        \A k \in 0..Len(commands) :
            LET commented == execute(__init__(InsertAt(commands, k, CommentChar)),
                                     <<>>, 2 * Fuel + 1)
            IN  /\ is_end(commented)
                /\ ~commented.raised
                /\ Observed(commented) = Observed(self)

\* Every prefix of cmds has at least as many `[` as `]`, and cmds as many.
Balanced(cmds) ==
    /\ \A j \in 0..(Len(cmds) - 1) : Count(cmds, "]", 0, j) <= Count(cmds, "[", 0, j)
    /\ Count(cmds, "[", 0, Len(cmds) - 1) = Count(cmds, "]", 0, Len(cmds) - 1)

\* The state fits the C program: pointer inside the buffer, cells inside char.
FitsC(st) ==
    /\ st.stack_position \in 0..(CellsSize - 1)
    /\ \A i \in DOMAIN st.stack : st.stack[i] \in 0..CharMax

\* Every state of the run from st, up to fuel steps, fits the C program.
RECURSIVE RunFitsC(_, _)
RunFitsC(st, fuel) ==
    /\ FitsC(st)
    /\ ~st.raised
    /\ (is_end(st) \/ fuel = 0 \/ RunFitsC(single_step(st, <<>>), fuel - 1))

(***************************************************************************)
(* C4: for a bracket-balanced sequence without `,` whose run keeps the     *)
(* pointer in 0..2999 and the cells in the range of char, the program      *)
(* to_c emits, run as C, writes the same output and ends with the same     *)
(* cell values as execute().  Stated of the runs that end, in its weakest  *)
(* form: for some fill of the uninitialized buffer the C program ends with *)
(* what this run ended with.  Refuted by the code: execute() skips the     *)
(* instruction after a loop whose `[` finds a zero cell, the C while       *)
(* statement does not.                                                     *)
(***************************************************************************)
C4_LoweredProgramAgrees ==
    (/\ RunEnded
     /\ Balanced(commands)
     /\ ReadsNoInput(commands)
     /\ RunFitsC(__init__(commands), Fuel)) =>
        \E init \in CInit :
            LET lines == to_c(self)
                c == CRun(lines, CStart(<<>>), init, 2 * Fuel)
            IN  /\ CDone(lines, c)
                /\ c.out = stream_output
                /\ \A i \in 0..(CellsSize - 1) :
                       CCell(c.cells, i, init) = CellValue(stack, i)

(***************************************************************************)
(* C11: a step taken when the cursor is at or past the end of the sequence *)
(* is a no-op: it leaves the cursor, the tape pointer, the tape (the set   *)
(* of materialized cells included), the input source and the output as     *)
(* they were and raises nothing.  Being at the end is stable: no call      *)
(* other than set_command leaves a state in which is_end() holds for one   *)
(* in which it does not.                                                   *)
(***************************************************************************)
C11_StepAtEndIsNoOp ==
    [][is_end(self) =>
          /\ call'.name = "single_step" =>
                 /\ commands' = commands
                 /\ commands_position' = commands_position
                 /\ stack_position' = stack_position
                 /\ stack' = stack
                 /\ DOMAIN stack' = DOMAIN stack
                 /\ stream_input' = stream_input
                 /\ stream_output' = stream_output
                 /\ ~raised'
          /\ call'.name # "set_command" =>
                 commands_position' >= Len(commands')]_vars

\* A step was taken with the cursor past the end, on a tape that holds cells.
C11_Witness ==
    /\ call.name = "single_step"
    /\ call.at > Len(commands)
    /\ call.cmd = ""
    /\ commands_position = call.at
    /\ stack # EmptyDict

\* The lines the commands cmds contribute, one command at a time: an operator
\* its line, any other character nothing.
RECURSIVE LoweredLines(_)
LoweredLines(cmds) ==
    IF cmds = <<>> THEN <<>>
    ELSE (IF Head(cmds) \in OperatorChars THEN <<c_commands(Head(cmds))>> ELSE <<>>)
             \o LoweredLines(Tail(cmds))

(***************************************************************************)
(* C12: the text to_c() returns is a function of the sequence alone: the   *)
(* fixed prologue, one fixed line per operator of the sequence in order    *)
(* (other characters contribute nothing, brackets are emitted as they      *)
(* stand, balanced or not), the fixed epilogue.  Asked for before, during  *)
(* or after execution it is the text a fresh interpreter of the same       *)
(* sequence returns, and the call leaves the interpreter as it was.        *)
(***************************************************************************)
C12_ToCDependsOnCommandsOnly ==
    [][call'.name = "to_c" =>
          /\ call'.arg = CPrologue \o LoweredLines(commands) \o <<CEpilogue>>
          /\ call'.arg = to_c(__init__(commands))
          /\ Len(call'.arg) = Len(CPrologue) + 1
                 + Cardinality({i \in DOMAIN commands : commands[i] \in OperatorChars})
          /\ UNCHANGED <<commands, commands_position, stack, stack_position,
                         stream_input, stream_output, raised>>]_vars

\* to_c() was called in the middle of a run, the tape in use, on a sequence
\* with a comment character and an unbalanced bracket.
C12_Witness ==
    /\ call.name = "to_c"
    /\ commands_position > 0
    /\ ~is_end(self)
    /\ stack # EmptyDict
    /\ \E i \in DOMAIN commands : commands[i] = CommentChar
    /\ ~Balanced(commands)
    /\ Len(call.arg) = Len(CPrologue) + Len(commands)

(***************************************************************************)
(* C13: a step changes only what its command is for.  `>` and `<` change   *)
(* the tape pointer (by one) and nothing of the tape or the output; `+`,   *)
(* `-` and `,` change the value of the cell at the pointer and neither the *)
(* pointer nor the output; `.` changes the output and neither the pointer  *)
(* nor any cell value; `[` and `]` change the cursor alone; any other      *)
(* character, and a step at the end, changes nothing but the cursor.  Only *)
(* `,` consumes input.  In every step the cells at indices other than the  *)
(* pointer keep their values (an absent cell reads 0), no cell is removed, *)
(* the only index a step may create is the pointer before the step, and    *)
(* `>`, `<` and non-operators create none.  The sequence is never changed. *)
(***************************************************************************)
C13_StepChangesItsPieceOnly ==
    [][call'.name = "single_step" =>
          LET cmd == call'.cmd
              SamePointer == stack_position' = stack_position
              SameOutput == stream_output' = stream_output
              SameInput == stream_input' = stream_input
              SameValues == SameCellsExcept(stack, stack', {})
          IN  /\ commands' = commands
              /\ SameCellsExcept(stack, stack', {stack_position})
              /\ DOMAIN stack \subseteq DOMAIN stack'
              /\ DOMAIN stack' \subseteq DOMAIN stack \cup {stack_position}
              /\ cmd = ">" => /\ stack_position' = stack_position + 1
                              /\ stack' = stack /\ SameOutput /\ SameInput
              /\ cmd = "<" => /\ stack_position' = stack_position - 1
                              /\ stack' = stack /\ SameOutput /\ SameInput
              /\ cmd \in {"+", "-"} => SamePointer /\ SameOutput /\ SameInput
              /\ cmd = "," => SamePointer /\ SameOutput
              /\ cmd = "." => SamePointer /\ SameValues /\ SameInput
              /\ cmd \in {"[", "]"} =>
                     SamePointer /\ SameValues /\ SameOutput /\ SameInput
              /\ cmd \notin OperatorChars =>
                     SamePointer /\ stack' = stack /\ SameOutput /\ SameInput]_vars

\* A step of `.` on a cell never touched before created that cell, away from
\* index 0, next to a cell holding a value, and wrote the output.
C13_Witness ==
    /\ Executed(".")
    /\ stack_position # 0
    /\ stack_position \in DOMAIN stack
    /\ stack[stack_position] = 0
    /\ CellValue(stack, 0) # 0
    /\ stream_output # <<>>

C14_WitnessEntered ==
    /\ Executed("[")
    /\ CellValue(stack, stack_position) # 0
    /\ commands_position = call.at + 1
    /\ HasForwardMatch(commands, call.at)

(***************************************************************************)
(* C15: a step of `]` at index c on a nonzero cell ends with the cursor at *)
(* b + 1, b being the index among 1..c-1 of the `[` that balances it;      *)
(* index 0 is no candidate, and when no index of 1..c-1 balances it the    *)
(* step ends with the cursor at c + 1.  A step of `]` on a zero cell ends  *)
(* with the cursor at c + 1.                                               *)
(***************************************************************************)
C15_LoopEndJumpTarget ==
    Executed("]") =>
        /\ CellValue(stack, stack_position) # 0 =>
               /\ \A b \in 1..(call.at - 1) :
                      IsBackwardMatch(commands, call.at, b, 1) =>
                          commands_position = b + 1
               /\ ~HasBackwardMatch(commands, call.at, 1) =>
                      commands_position = call.at + 1
        /\ CellValue(stack, stack_position) = 0 => commands_position = call.at + 1

\* A step of `]` on a nonzero cell jumped back over a nested loop to the `[`
\* that balances it, which is not the nearest `[` before it.
C15_Witness ==
    /\ Executed("]")
    /\ CellValue(stack, stack_position) # 0
    /\ \E b \in 1..(call.at - 1) :
           /\ IsBackwardMatch(commands, call.at, b, 1)
           /\ Count(commands, "[", b + 1, call.at - 1) > 0
           /\ commands_position = b + 1

\* A step of `]` on a nonzero cell found only an unbalanced `[` among the
\* indices 1..c-1 and fell through.
C15_WitnessNoMatch ==
    /\ Executed("]")
    /\ CellValue(stack, stack_position) # 0
    /\ Count(commands, "[", 1, call.at - 1) > 0
    /\ ~HasBackwardMatch(commands, call.at, 1)
    /\ commands_position = call.at + 1

\* The for loop of _loop_end had it been written range(position - 1, -1, -1):
\* index 0 is inspected too.
RECURSIVE LoopEndForToZero(_, _, _, _)
LoopEndForToZero(cmds, i, found, position) ==
    IF i < 0 THEN position
    ELSE LET command == cmds[i + 1]
         IN  IF command = "[" /\ found = 0 THEN i
             ELSE IF command = "[" THEN LoopEndForToZero(cmds, i - 1, found + 1, position)
             ELSE IF command = "]" THEN LoopEndForToZero(cmds, i - 1, found - 1, position)
             ELSE LoopEndForToZero(cmds, i - 1, found, position)

\* The next step executes `]` on a nonzero cell.
LoopEndWillScan ==
    /\ ~is_end(self)
    /\ CurrentCommand = "]"
    /\ CellValue(stack, stack_position) # 0

(***************************************************************************)
(* C16: that the backward scan of `]` never inspects index 0 cannot be     *)
(* observed from a freshly constructed interpreter.  In no reachable state *)
(* is a `]` about to be executed on a nonzero cell balanced by the `[` at  *)
(* index 0, and in every reachable state the scan as written and the scan  *)
(* extended to index 0 send the cursor to the same place, so that the two  *)
(* interpreters go through the same states.                                *)
(***************************************************************************)
C16_IndexZeroNeverMatched ==
    LoopEndWillScan =>
        /\ ~IsBackwardMatch(commands, commands_position, 0, 0)
        /\ _loop_end_for(commands, commands_position - 1, 0, commands_position)
               = LoopEndForToZero(commands, commands_position - 1, 0, commands_position)

\* A step of `]` on a nonzero cell scanned down to index 1 without a match,
\* index 0 holding a `[`: the scan extended to index 0 inspects that `[`.
C16_Witness ==
    /\ Executed("]")
    /\ CellValue(stack, stack_position) # 0
    /\ commands[1] = "["
    /\ ~HasBackwardMatch(commands, call.at, 1)
    /\ commands_position = call.at + 1

(***************************************************************************)
(* C17: the instruction at index 0 is executed at most once.  On a         *)
(* nonempty sequence the cursor is 0 only in the state construction or     *)
(* set_command leaves: the first step ends with the cursor at 1 or more,   *)
(* and from a cursor of 1 or more no call but set_command leads to a       *)
(* cursor below 1.  A step that executes an instruction without raising    *)
(* adds 1 to the cursor, jumps forward, or jumps back to an index of 1 or  *)
(* more and then adds 1.                                                   *)
(***************************************************************************)
C17_IndexZeroRunsOnce ==
    [][LET step == call'.name = "single_step"
       IN  /\ (step /\ Len(commands) > 0) => commands_position' >= 1
           /\ (call'.name # "set_command" /\ commands_position >= 1) =>
                  commands_position' >= 1
           /\ (step /\ ~is_end(self) /\ ~raised') =>
                  \/ commands_position' = commands_position + 1
                  \/ commands_position' > commands_position + 1
                  \/ (commands_position' >= 2 /\ commands_position' <= commands_position)
      ]_vars

\* A step of `]` jumped back as far as a jump goes: to the `[` at index 1,
\* which leaves the cursor at 2.
C17_Witness ==
    /\ Executed("]")
    /\ back_jumps > 0
    /\ commands_position = 2
    /\ commands[2] = "["

\* A step of `]` at the cursor on a nonzero cell whose backward scan finds the
\* `[` that balances it.
BackwardJumpDue ==
    /\ CurrentCommand = "]"
    /\ CellValue(stack, stack_position) # 0
    /\ HasBackwardMatch(commands, commands_position, 1)

(***************************************************************************)
(* C18: every step taken while the cursor is not at the end strictly       *)
(* increases the cursor, except a step of `]` on a nonzero cell whose      *)
(* backward scan finds a match; on this rest the bound of len(sequence)    *)
(* steps for a run of a sequence without `]`.  Refuted by the code: a step *)
(* of `.` on a cell holding a value outside 0..255 raises ValueError from  *)
(* chr() and leaves the cursor where it was.                               *)
(***************************************************************************)
C18_StepsMakeProgress ==
    [][(call'.name = "single_step" /\ ~is_end(self)) =>
           \/ commands_position' > commands_position
           \/ BackwardJumpDue]_vars

====
